---- MODULE Spec2Model ----
(***************************************************************************)
(* Model of the two request handlers of gemini-qa-app:                     *)
(*   - the WeChat webhook (src/unnamed/part_000): handler,                 *)
(*     handleVerification, handleMessage, getGeminiResponse, sendReply;    *)
(*   - the prompt form (src/index.tsx): App and its handleSubmit.          *)
(* Strings that are sorted, concatenated or trimmed are sequences of       *)
(* characters; strings that are only copied and compared are TLA+ strings. *)
(* An optional value (a query parameter, the array xml2js builds for a     *)
(* tag) is a sequence: <<>> when it is undefined, <<v>> when it is there.  *)
(***************************************************************************)
EXTENDS Naturals, Sequences, FiniteSets

\* ------------------------------------------------------------------ bounds
\* query-string characters are the codes 1..MaxChar
MaxChar == 2
\* longest timestamp / nonce string drawn
MaxStrLen == 2
\* longest prompt typed into the form
MaxPromptLen == 2
\* API calls the form may start in one run
MaxCalls == 3

VARIABLES
    method,       \* req.method
    query,        \* req.query: parameter name -> optional string
    body,         \* what reading and parsing the request body gives
    pc,           \* where the webhook handler stands
    status,       \* res.status(...): <<>> until set
    resBody,      \* what res.send(...) was given
    contentType,  \* res.setHeader('Content-Type', ...)
    sends,        \* number of res.send calls
    apiLog,       \* prompts handed to ai.models.generateContent by the webhook
    apiOutcome,   \* how that call settled
    userPrompt,   \* handleMessage locals kept across the await
    fromUser,
    toUser,
    prompt,       \* App state (useState)
    response,
    error,
    loading,
    inflight,     \* prompts of the form's API calls not settled yet
    calls,        \* API calls the form has started
    lastOp        \* the form event handled last

hookVars == <<method, query, body, pc, status, resBody, contentType, sends,
              apiLog, apiOutcome, userPrompt, fromUser, toUser>>
formVars == <<prompt, response, error, loading, inflight, calls, lastOp>>
vars == <<method, query, body, pc, status, resBody, contentType, sends,
          apiLog, apiOutcome, userPrompt, fromUser, toUser,
          prompt, response, error, loading, inflight, calls, lastOp>>

\* ------------------------------------------------------- strings (webhook)
Chars == 1..MaxChar

StrsUpTo(n) == UNION {[1..k -> Chars] : k \in 0..n}

\* process.env.WECHAT_TOKEN: non-empty, or the module throws at load time
WECHAT_TOKEN == <<2, 1>>

\* a < b as JavaScript compares strings: by code unit, a proper prefix first
RECURSIVE LexLess(_, _)
LexLess(a, b) ==
    IF b = <<>> THEN FALSE
    ELSE IF a = <<>> THEN TRUE
    ELSE IF Head(a) # Head(b) THEN Head(a) < Head(b)
    ELSE LexLess(Tail(a), Tail(b))

RECURSIVE InsertSorted(_, _)
InsertSorted(x, l) ==
    IF l = <<>> THEN <<x>>
    ELSE IF LexLess(x, Head(l)) THEN <<x>> \o l
    ELSE <<Head(l)>> \o InsertSorted(x, Tail(l))

RECURSIVE SortedFrom(_, _)
SortedFrom(l, acc) ==
    IF l = <<>> THEN acc ELSE SortedFrom(Tail(l), InsertSorted(Head(l), acc))

\* the list left in the order [token, timestamp, nonce]
Unsorted(l) == l

\* Array.prototype.sort() with the default (string) comparison
Sort(l) == SortedFrom(l, <<>>)

\* Array.prototype.join('')
RECURSIVE Join(_)
Join(l) == IF l = <<>> THEN <<>> ELSE Head(l) \o Join(Tail(l))

\* crypto.createHash('sha1').update(s).digest('hex'): a symbolic digest, one
\* string per input, told from every string over Chars by its leading 0
Sha1Hex(s) == <<0>> \o s

\* ------------------------------------------------------ optional values
\* JavaScript truthiness of an optional string: undefined and '' are falsy
Truthy(p) == p # <<>> /\ p[1] # <<>>

\* the string an optional string reads as ('' for undefined, as join does)
StrOf(p) == IF p = <<>> THEN <<>> ELSE p[1]

\* x[0] throws a TypeError when x is undefined
CanIndex(x) == x # <<>>

\* ------------------------------------------------------------ the requests
Opt(S) == {<<>>} \cup {<<s>> : s \in S}

QueryKeys == {"signature", "timestamp", "nonce", "echostr"}

NoQuery == [k \in QueryKeys |-> <<>>]

\* the orders in which three strings can be concatenated
Orders(a, b, c) ==
    {<<a, b, c>>, <<a, c, b>>, <<b, a, c>>, <<b, c, a>>, <<c, a, b>>, <<c, b, a>>}

\* signatures worth sending with timestamp t and nonce n: none, the empty one,
\* the bare token, and the digest of every concatenation order
Signatures(t, n) ==
    {<<>>, <<(<<>>)>>, <<WECHAT_TOKEN>>}
        \cup {<<Sha1Hex(Join(l))>> : l \in Orders(WECHAT_TOKEN, StrOf(t), StrOf(n))}

Echostrs == Opt({<<>>, <<1>>, <<2, 1>>})

\* the arrays xml2js builds for the tags of the inbound envelope
Envelopes ==
    [MsgType : Opt({"text", "image", ""}),
     Content : Opt({"hello", ""}),
     FromUserName : Opt({"userA", "userB"}),
     ToUserName : Opt({"acct"})]

\* reading the body stream fails, parsing fails, the document has no <xml>
\* root, or it parses to an envelope
Bodies ==
    {[kind |-> k, xml |-> <<>>] : k \in {"streamError", "malformed", "parsed"}}
        \cup {[kind |-> "parsed", xml |-> <<m>>] : m \in Envelopes}

NoBody == [kind |-> "parsed", xml |-> <<>>]

\* Date.now(), in milliseconds
ClockMs == {1999, 2000}

\* what ai.models.generateContent resolves to: result.text undefined, '' or a text
ApiTexts == Opt({"", "Hi!"})

NoOutcome == [kind |-> "none", text |-> <<>>]

\* ------------------------------------------------------- response bodies
TextBody(t) == [kind |-> "text", text |-> t]
EchoBody(s) == [kind |-> "echo", str |-> s]
\* new Builder({cdata: true}).buildObject(payload): the document, as its tree
XmlBody(payload) == [kind |-> "xml", xml |-> payload]
NoResBody == [kind |-> "unsent"]

Apology == "Sorry, I can only understand text messages for now."
NoTextFallback == "I'm not sure how to respond to that."
TroubleFallback == "Sorry, I'm having trouble thinking right now. Please try again later."

\* ------------------------------------------------------ handleVerification
\* the guard without its echostr test
MissingParamsNoEchostr(q) ==
    ~Truthy(q.signature) \/ ~Truthy(q.timestamp) \/ ~Truthy(q.nonce)

\* !signature || !timestamp || !nonce || !echostr
MissingParams(q) ==
    ~Truthy(q.signature) \/ ~Truthy(q.timestamp) \/ ~Truthy(q.nonce)
        \/ ~Truthy(q.echostr)

\* the digest handleVerification compares with the signature
Digest(q) ==
    Sha1Hex(Join(Sort(<<WECHAT_TOKEN, StrOf(q.timestamp), StrOf(q.nonce)>>)))

VerificationResponse(q) ==
    IF MissingParams(q)
    THEN [status |-> 400, body |-> TextBody("Missing verification parameters.")]
    ELSE IF <<Digest(q)>> = q.signature
         THEN [status |-> 200, body |-> EchoBody(StrOf(q.echostr))]
         ELSE [status |-> 403, body |-> TextBody("Verification failed.")]

\* --------------------------------------------------------------- sendReply
\* sendReply also reading originalMessage.Content[0]
SendReplyThrowsOnContent(originalMessage) ==
    \/ ~CanIndex(originalMessage.ToUserName)
    \/ ~CanIndex(originalMessage.FromUserName)
    \/ ~CanIndex(originalMessage.Content)

\* originalMessage.ToUserName[0] or originalMessage.FromUserName[0] throws
SendReplyThrows(originalMessage) ==
    ~CanIndex(originalMessage.ToUserName) \/ ~CanIndex(originalMessage.FromUserName)

ReplyPayload(originalMessage, content, now) ==
    [ToUserName |-> originalMessage.ToUserName[1],
     FromUserName |-> originalMessage.FromUserName[1],
     CreateTime |-> now \div 1000,
     MsgType |-> "text",
     Content |-> content]

\* res.setHeader(...); res.status(200).send(xmlResponse)
SendReply(originalMessage, content) ==
    \E now \in ClockMs :
        /\ contentType' = <<"application/xml">>
        /\ status' = <<200>>
        /\ resBody' = XmlBody(ReplyPayload(originalMessage, content, now))
        /\ sends' = sends + 1

\* the catch block answering 500
CatchSendServerError ==
    /\ status' = <<500>>
    /\ resBody' = TextBody("")
    /\ sends' = sends + 1
    /\ UNCHANGED contentType

\* the catch block of handleMessage: res.status(200).send('')
CatchSend ==
    /\ status' = <<200>>
    /\ resBody' = TextBody("")
    /\ sends' = sends + 1
    /\ UNCHANGED contentType

\* --------------------------------------------------------- getGeminiResponse
\* result.text ?? "I'm not sure how to respond to that."
GeminiText(text) == IF text = <<>> THEN NoTextFallback ELSE text[1]

\* getGeminiResponse letting the API error through
GeminiRethrows == FALSE

\* the catch block of getGeminiResponse returns its string and never rethrows
GeminiCatches == TRUE

\* ------------------------------------------------------------ handleMessage
\* getRawBody and parseStringPromise succeed, and message.MsgType[0] is read
ReadsMsgType(b) ==
    b.kind = "parsed" /\ CanIndex(b.xml) /\ CanIndex(b.xml[1].MsgType)

\* message.Content[0], message.FromUserName[0], message.ToUserName[0] are read
ReadsTextFields(m) ==
    CanIndex(m.Content) /\ CanIndex(m.FromUserName) /\ CanIndex(m.ToUserName)

\* the names passed on as they came
UnswappedEnvelope(from, to) == [FromUserName |-> <<from>>, ToUserName |-> <<to>>]

\* { FromUserName: [toUser], ToUserName: [fromUser] }
SwappedEnvelope(from, to) == [FromUserName |-> <<to>>, ToUserName |-> <<from>>]

\* ------------------------------------------------------------------ actions
\* handler, GET branch: the whole of handleVerification
HandleVerification ==
    /\ pc = "start" /\ method = "GET"
    /\ status' = <<VerificationResponse(query).status>>
    /\ resBody' = VerificationResponse(query).body
    /\ sends' = sends + 1
    /\ pc' = "done"
    /\ UNCHANGED <<method, query, body, contentType, apiLog, apiOutcome,
                   userPrompt, fromUser, toUser>>
    /\ UNCHANGED formVars

\* handler, neither GET nor POST
MethodNotAllowed ==
    /\ pc = "start" /\ method \notin {"GET", "POST"}
    /\ status' = <<405>>
    /\ resBody' = TextBody("Method Not Allowed")
    /\ sends' = sends + 1
    /\ pc' = "done"
    /\ UNCHANGED <<method, query, body, contentType, apiLog, apiOutcome,
                   userPrompt, fromUser, toUser>>
    /\ UNCHANGED formVars

\* handleMessage fails before msgType is known: body stream error, malformed
\* XML, no <xml> root, no MsgType
HandleMessageUnreadable ==
    /\ pc = "start" /\ method = "POST"
    /\ ~ReadsMsgType(body)
    /\ CatchSend
    /\ pc' = "done"
    /\ UNCHANGED <<method, query, body, apiLog, apiOutcome,
                   userPrompt, fromUser, toUser>>
    /\ UNCHANGED formVars

\* handleMessage, msgType !== 'text': sendReply(res, message, apology)
HandleMessageNonText ==
    /\ pc = "start" /\ method = "POST"
    /\ ReadsMsgType(body)
    /\ body.xml[1].MsgType[1] # "text"
    /\ IF SendReplyThrows(body.xml[1])
       THEN CatchSend
       ELSE SendReply(body.xml[1], Apology)
    /\ pc' = "done"
    /\ UNCHANGED <<method, query, body, apiLog, apiOutcome,
                   userPrompt, fromUser, toUser>>
    /\ UNCHANGED formVars

\* handleMessage, text message with a field missing: the TypeError is caught
HandleMessageTextIncomplete ==
    /\ pc = "start" /\ method = "POST"
    /\ ReadsMsgType(body)
    /\ body.xml[1].MsgType[1] = "text"
    /\ ~ReadsTextFields(body.xml[1])
    /\ CatchSend
    /\ pc' = "done"
    /\ UNCHANGED <<method, query, body, apiLog, apiOutcome,
                   userPrompt, fromUser, toUser>>
    /\ UNCHANGED formVars

\* handleMessage, text message: up to the await of generateContent
HandleMessageText ==
    /\ pc = "start" /\ method = "POST"
    /\ ReadsMsgType(body)
    /\ body.xml[1].MsgType[1] = "text"
    /\ ReadsTextFields(body.xml[1])
    /\ userPrompt' = <<body.xml[1].Content[1]>>
    /\ fromUser' = <<body.xml[1].FromUserName[1]>>
    /\ toUser' = <<body.xml[1].ToUserName[1]>>
    /\ apiLog' = Append(apiLog, body.xml[1].Content[1])
    /\ apiOutcome' = [kind |-> "pending", text |-> <<>>]
    /\ pc' = "awaitGemini"
    /\ UNCHANGED <<method, query, body, status, resBody, contentType, sends>>
    /\ UNCHANGED formVars

\* generateContent resolves; getGeminiResponse returns; sendReply
GeminiResolves ==
    /\ pc = "awaitGemini"
    /\ \E text \in ApiTexts :
        /\ apiOutcome' = [kind |-> "returned", text |-> text]
        /\ SendReply(SwappedEnvelope(fromUser[1], toUser[1]), GeminiText(text))
    /\ pc' = "done"
    /\ UNCHANGED <<method, query, body, apiLog, userPrompt, fromUser, toUser>>
    /\ UNCHANGED formVars

\* generateContent rejects; getGeminiResponse catches; sendReply
GeminiRejects ==
    /\ pc = "awaitGemini"
    /\ apiOutcome' = [kind |-> "threw", text |-> <<>>]
    /\ IF GeminiCatches
       THEN SendReply(SwappedEnvelope(fromUser[1], toUser[1]), TroubleFallback)
       ELSE CatchSend
    /\ pc' = "done"
    /\ UNCHANGED <<method, query, body, apiLog, userPrompt, fromUser, toUser>>
    /\ UNCHANGED formVars

HookNext ==
    \/ HandleVerification
    \/ MethodNotAllowed
    \/ HandleMessageUnreadable
    \/ HandleMessageNonText
    \/ HandleMessageTextIncomplete
    \/ HandleMessageText
    \/ GeminiResolves
    \/ GeminiRejects

\* one request arrives at a fresh invocation
HookInit ==
    /\ method \in {"GET", "POST", "PUT"}
    /\ \/ /\ method = "GET"
          /\ \E t \in Opt(StrsUpTo(MaxStrLen)), n \in Opt(StrsUpTo(MaxStrLen)) :
                \E s \in Signatures(t, n), e \in Echostrs :
                    query = [signature |-> s, timestamp |-> t, nonce |-> n,
                             echostr |-> e]
          /\ body = NoBody
       \/ /\ method = "POST"
          /\ query = NoQuery
          /\ body \in Bodies
       \/ /\ method = "PUT"
          /\ query = NoQuery
          /\ body = NoBody
    /\ pc = "start"
    /\ status = <<>>
    /\ resBody = NoResBody
    /\ contentType = <<>>
    /\ sends = 0
    /\ apiLog = <<>>
    /\ apiOutcome = NoOutcome
    /\ userPrompt = <<>>
    /\ fromUser = <<>>
    /\ toUser = <<>>

\* the form, untouched
FormIdle ==
    /\ prompt = <<>>
    /\ response = ""
    /\ error = ""
    /\ loading = FALSE
    /\ inflight = <<>>
    /\ calls = 0
    /\ lastOp = [op |-> "none", text |-> <<>>, err |-> [isError |-> FALSE, message |-> ""]]

\* one webhook request, the form left alone
InitHook == HookInit /\ FormIdle

SpecHook == InitHook /\ [][HookNext]_vars

\* ========================================================= the prompt form
PromptChars == {" ", "\n", "a"}

Whitespace == {" ", "\n"}

Prompts == UNION {[1..k -> PromptChars] : k \in 0..MaxPromptLen}

RECURSIVE TrimStart(_)
TrimStart(s) ==
    IF s # <<>> /\ Head(s) \in Whitespace THEN TrimStart(Tail(s)) ELSE s

RECURSIVE TrimEnd(_)
TrimEnd(s) ==
    IF s # <<>> /\ s[Len(s)] \in Whitespace
    THEN TrimEnd(SubSeq(s, 1, Len(s) - 1))
    ELSE s

\* the prompt tested without trim()
Untrimmed(s) == s

\* String.prototype.trim()
Trim(s) == TrimEnd(TrimStart(s))

\* what generateContent rejects with: an Error with a message, an Error with
\* an empty message, a value that is no Error
Thrown ==
    {[isError |-> TRUE, message |-> "boom"],
     [isError |-> TRUE, message |-> ""],
     [isError |-> FALSE, message |-> "oops"]}

NoThrown == [isError |-> FALSE, message |-> ""]

UnknownError == "An unknown error occurred."

\* result.text ?? ''
ResponseText(text) == IF text = <<>> THEN "" ELSE text[1]

\* err.message without the instanceof test
MessageOnly(err) == err.message

\* err instanceof Error ? err.message : 'An unknown error occurred.'
ErrorText(err) == IF err.isError THEN err.message ELSE UnknownError

\* {error && <div role="alert">{error}</div>}
ErrorShown == error # ""

\* {response && !error && (<div aria-live="polite">...{response}...</div>)}
ResponseShown == response # "" /\ error = ""

\* disabled={loading} on the textarea and on the submit button
InputDisabled == loading

Op(op, text, err) == [op |-> op, text |-> text, err |-> err]

\* onChange of the textarea: setPrompt(e.target.value)
SetPrompt ==
    /\ ~InputDisabled
    /\ \E p \in Prompts : prompt' = p
    /\ lastOp' = Op("change", <<>>, NoThrown)
    /\ UNCHANGED <<response, error, loading, inflight, calls>>
    /\ UNCHANGED hookVars

\* the call started without setLoading(true)
StartCallKeepLoading ==
    /\ calls < MaxCalls
    /\ loading' = loading
    /\ response' = ""
    /\ error' = ""
    /\ inflight' = Append(inflight, prompt)
    /\ calls' = calls + 1

\* setLoading(true); setResponse(''); setError(''); generateContent({contents: prompt})
StartCall ==
    /\ calls < MaxCalls
    /\ loading' = TRUE
    /\ response' = ""
    /\ error' = ""
    /\ inflight' = Append(inflight, prompt)
    /\ calls' = calls + 1

\* onSubmit of the form: handleSubmit up to its await
HandleSubmit ==
    /\ ~InputDisabled
    /\ IF Trim(prompt) = <<>>
       THEN UNCHANGED <<response, error, loading, inflight, calls>>
       ELSE StartCall
    /\ lastOp' = Op("submit", <<>>, NoThrown)
    /\ UNCHANGED prompt
    /\ UNCHANGED hookVars

\* finally { setLoading(false) }
Finally == loading' = FALSE

\* generateContent resolves: setResponse(result.text ?? ''), then finally
ApiResolves ==
    /\ \E i \in DOMAIN inflight, text \in ApiTexts :
        /\ inflight' = SubSeq(inflight, 1, i - 1) \o SubSeq(inflight, i + 1, Len(inflight))
        /\ response' = ResponseText(text)
        /\ lastOp' = Op("resolved", text, NoThrown)
    /\ Finally
    /\ UNCHANGED <<prompt, error, calls>>
    /\ UNCHANGED hookVars

\* generateContent rejects: setError(...), then finally
ApiRejects ==
    /\ \E i \in DOMAIN inflight, err \in Thrown :
        /\ inflight' = SubSeq(inflight, 1, i - 1) \o SubSeq(inflight, i + 1, Len(inflight))
        /\ error' = ErrorText(err)
        /\ lastOp' = Op("rejected", <<>>, err)
    /\ Finally
    /\ UNCHANGED <<prompt, response, calls>>
    /\ UNCHANGED hookVars

FormNext ==
    \/ SetPrompt
    \/ HandleSubmit
    \/ ApiResolves
    \/ ApiRejects

\* the state App is first rendered with
FormInit ==
    /\ prompt = <<>>
    /\ response = ""
    /\ error = ""
    /\ loading = FALSE
    /\ inflight = <<>>
    /\ calls = 0
    /\ lastOp = Op("none", <<>>, NoThrown)

\* no webhook request under way
HookQuiet ==
    /\ method = "none"
    /\ query = NoQuery
    /\ body = NoBody
    /\ pc = "idle"
    /\ status = <<>>
    /\ resBody = NoResBody
    /\ contentType = <<>>
    /\ sends = 0
    /\ apiLog = <<>>
    /\ apiOutcome = NoOutcome
    /\ userPrompt = <<>>
    /\ fromUser = <<>>
    /\ toUser = <<>>

\* the form alone
InitForm == HookQuiet /\ FormInit

\* every API call the form starts settles in the end
SpecForm ==
    /\ InitForm
    /\ [][FormNext]_vars
    /\ WF_vars(ApiResolves \/ ApiRejects)

\* ================================================================== claims
\* what the claims read of a finished webhook request
GetDone == pc = "done" /\ method = "GET"
PostDone == pc = "done" /\ method = "POST"

Present(p) == p # <<>>
PresentNonEmpty(p) == Len(p) = 1 /\ Len(p[1]) > 0

\* a <= b in lexicographic order, stated by the first place where they differ
LexLeq(a, b) ==
    \E k \in 0..Len(a) :
        /\ k <= Len(b)
        /\ \A i \in 1..k : a[i] = b[i]
        /\ \/ k = Len(a)
           \/ k < Len(b) /\ a[k + 1] < b[k + 1]

\* the signature the platform computes: the digest of the three strings
\* concatenated in non-decreasing order
ExpectedSignature(q) ==
    LET l == CHOOSE o \in Orders(WECHAT_TOKEN, StrOf(q.timestamp), StrOf(q.nonce)) :
                 LexLeq(o[1], o[2]) /\ LexLeq(o[2], o[3])
    IN  Sha1Hex(l[1] \o l[2] \o l[3])

VerificationContract ==
    /\ apiLog = <<>>
    /\ IF <<ExpectedSignature(query)>> = query.signature
       THEN status = <<200>> /\ resBody = [kind |-> "echo", str |-> query.echostr[1]]
       ELSE status = <<403>>

\* C1 as stated: whenever the four parameters are all present, the answer is
\* 200 with the echostr exactly when the signature is the digest of the sorted
\* concatenation, 403 otherwise, and the API is not called.
C1_AllPresent ==
    (GetDone /\ \A k \in QueryKeys : Present(query[k])) => VerificationContract

\* C1 as amended: the same, for requests whose four parameters are all present
\* and non-empty (an empty parameter counts as missing and is answered 400).
C1_AllNonEmpty ==
    (GetDone /\ \A k \in QueryKeys : PresentNonEmpty(query[k])) => VerificationContract

C1_Witness ==
    /\ GetDone
    /\ \A k \in QueryKeys : PresentNonEmpty(query[k])
    /\ query.signature = <<ExpectedSignature(query)>>
    /\ LexLeq(query.timestamp[1], WECHAT_TOKEN) /\ query.timestamp[1] # WECHAT_TOKEN
    /\ status = <<200>>

\* C2: a GET request with one of the four parameters missing is answered 400,
\* whatever the others are.
C2_MissingIs400 ==
    (GetDone /\ \E k \in QueryKeys : ~Present(query[k])) => status = <<400>> /\ sends = 1

C2_Witness ==
    /\ GetDone
    /\ ~Present(query.echostr)
    /\ PresentNonEmpty(query.timestamp) /\ PresentNonEmpty(query.nonce)
    /\ query.signature = <<ExpectedSignature(query)>>
    /\ status = <<400>>

\* the inbound envelope is well formed: all four tags are there
WellFormed ==
    /\ body.kind = "parsed" /\ body.xml # <<>>
    /\ \A t \in {"MsgType", "Content", "FromUserName", "ToUserName"} : body.xml[1][t] # <<>>

Inbound == body.xml[1]

IsReply == resBody.kind = "xml"

\* C3: a well-formed text message for which the API returns a text R is
\* answered with an envelope to the sender, from the receiver, of type text,
\* whose Content is R, after one API call with the inbound Content.
C3_TextRoundTrip ==
    (/\ PostDone /\ WellFormed /\ Inbound.MsgType[1] = "text"
     /\ apiOutcome.kind = "returned" /\ apiOutcome.text # <<>>)
    => /\ status = <<200>> /\ IsReply
       /\ resBody.xml.ToUserName = Inbound.FromUserName[1]
       /\ resBody.xml.FromUserName = Inbound.ToUserName[1]
       /\ resBody.xml.MsgType = "text"
       /\ resBody.xml.Content = apiOutcome.text[1]
       /\ apiLog = <<Inbound.Content[1]>>

C3_Witness ==
    /\ PostDone /\ WellFormed /\ Inbound.MsgType[1] = "text"
    /\ apiOutcome = [kind |-> "returned", text |-> <<"Hi!">>]
    /\ IsReply /\ resBody.xml.Content = "Hi!"
    /\ resBody.xml.ToUserName = "userA"

\* C4: every XML reply has the names of the inbound envelope swapped.
C4_ReplySwapped ==
    (PostDone /\ IsReply)
    => /\ resBody.xml.ToUserName = Inbound.FromUserName[1]
       /\ resBody.xml.FromUserName = Inbound.ToUserName[1]

\* C5 as stated: every POST whose MsgType is not text is answered with the
\* fixed apology, and the API is not called.
C5_NonTextApology ==
    (/\ PostDone /\ body.kind = "parsed" /\ body.xml # <<>>
     /\ Inbound.MsgType # <<>> /\ Inbound.MsgType[1] # "text")
    => /\ apiLog = <<>> /\ apiOutcome.kind = "none"
       /\ IsReply
       /\ resBody.xml.Content = "Sorry, I can only understand text messages for now."

\* C5 as amended: the same, for envelopes that also carry FromUserName and
\* ToUserName.
C5_NonTextApologyNamed ==
    (/\ PostDone /\ body.kind = "parsed" /\ body.xml # <<>>
     /\ Inbound.MsgType # <<>> /\ Inbound.MsgType[1] # "text"
     /\ Inbound.FromUserName # <<>> /\ Inbound.ToUserName # <<>>)
    => /\ apiLog = <<>> /\ apiOutcome.kind = "none"
       /\ status = <<200>> /\ IsReply
       /\ resBody.xml.Content = "Sorry, I can only understand text messages for now."

C5_Witness ==
    /\ PostDone /\ body.kind = "parsed" /\ body.xml # <<>>
    /\ Inbound.MsgType = <<"image">> /\ Inbound.Content = <<>>
    /\ Inbound.FromUserName # <<>> /\ Inbound.ToUserName # <<>>
    /\ IsReply

C7_PostAlways200 ==
    method = "POST"
    => /\ status \in {<<>>, <<200>>}
       /\ sends <= 1
       /\ pc = "done" => status = <<200>> /\ sends = 1

C7_Witness ==
    /\ PostDone /\ body.kind = "malformed" /\ status = <<200>> /\ sends = 1

\* ------------------------------------------------------------ the form
IsBlank(p) == \A i \in DOMAIN p : p[i] \in {" ", "\n"}

\* C8: a submit with an empty or whitespace-only prompt starts no API call and
\* leaves loading, response and error as they were.
C8_BlankSubmitNoOp ==
    [][(lastOp'.op = "submit" /\ IsBlank(prompt))
        => UNCHANGED <<loading, response, error, inflight, calls>>]_vars

C8_Witness ==
    /\ lastOp.op = "submit" /\ prompt # <<>> /\ IsBlank(prompt)
    /\ response # "" /\ calls > 0 /\ ~loading

\* C9 as stated: after a call that succeeded the response region is displayed
\* and the error region is not; after a call that failed the error region is
\* displayed and the response region is not.
C9_RegionsPopulated ==
    /\ lastOp.op = "resolved" => ResponseShown /\ ~ErrorShown
    /\ lastOp.op = "rejected" => ErrorShown /\ ~ResponseShown

\* C9 as amended: after a success the error is cleared and the response holds
\* the returned text ('' when there is none), displayed exactly when it is not
\* empty; after a failure the response is cleared and the error holds the
\* Error's message, or the fixed text for a value that is no Error, displayed
\* exactly when it is not empty.
C9_RegionsFollowResult ==
    /\ lastOp.op = "resolved"
       => /\ error = "" /\ ~ErrorShown
          /\ \/ lastOp.text = <<>> /\ response = ""
             \/ lastOp.text # <<>> /\ response = lastOp.text[1]
          /\ ResponseShown <=> (lastOp.text # <<>> /\ lastOp.text[1] # "")
    /\ lastOp.op = "rejected"
       => /\ response = "" /\ ~ResponseShown
          /\ \/ lastOp.err.isError /\ error = lastOp.err.message
             \/ ~lastOp.err.isError /\ error = "An unknown error occurred."
          /\ ErrorShown <=> ~(lastOp.err.isError /\ lastOp.err.message = "")

C9_Witness ==
    /\ lastOp.op = "rejected" /\ ~lastOp.err.isError
    /\ ErrorShown /\ calls >= 2

\* C10: a non-blank submit sets loading and starts the one call; loading is
\* true exactly while a call is in flight, so at most one is; and once
\* loading, the form comes back to idle.
C10_Cycle ==
    /\ [](Len(inflight) <= 1 /\ (loading <=> inflight # <<>>))
    /\ [][(lastOp'.op = "submit" /\ ~IsBlank(prompt))
            => loading' /\ inflight' = <<prompt>>]_vars
    /\ [][(lastOp'.op \in {"resolved", "rejected"}) => ~loading' /\ inflight' = <<>>]_vars
    /\ (loading ~> ~loading)

C10_Witness ==
    /\ ~loading /\ calls >= 2 /\ lastOp.op \in {"resolved", "rejected"}

====
